---- MODULE Spec2Model ----
(***************************************************************************)
(* A model of the six comparison scripts of library_comparison/: one run   *)
(* of run_all_tests of one script.  The run walks the fixed category       *)
(* order, every category (test_* function) calls its scenarios in order,   *)
(* every timed scenario goes through the measure_time wrapper, and the     *)
(* summary loop folds the recorded times.  The transport (the HTTP         *)
(* library and the network) is the environment: it answers, fails to       *)
(* connect, or lets a deadline expire.                                     *)
(*                                                                         *)
(* Spec is the run with requests of a fixed duration; SpecWallClock adds   *)
(* backward steps of the wall clock, SpecAnyTime requests of different     *)
(* durations.  SpecFanOut models the sequential and concurrent scenarios   *)
(* over the three delayed urls with their workers and tasks,               *)
(* SpecFanOutFail the same with worker requests that fail, SpecStream the  *)
(* chunk-reading loop of stream_bytes_request and SpecLines the line       *)
(* counting of stream_lines_request.                                       *)
(***************************************************************************)
EXTENDS Integers, Sequences, FiniteSets, TLC

VARIABLES
    script,         \* which of the six scripts runs
    pc,             \* control location of the run
    cat,            \* index of the current category in Categories(script)
    step,           \* index of the current step of the category
    clock,          \* the wall clock read by time.time()
    clockSteps,     \* how many times the wall clock has been set back
    start_time,     \* measure_time.wrapper: start_time
    calls,          \* how often the wrapper has invoked func in this call
    result,         \* what the scenario function returned
    exc,            \* the exception in flight, NoExc when none
    returned,       \* the wrapper's return value <<result, execution_time>>
    swallowed,      \* the exception an except clause of a scenario consumed
    cause,          \* why the last transport attempt failed
    retriesLeft,    \* urllib3: retries left in PoolManager.request
    openConns,      \* http.client: sockets connected and not closed
    locals,         \* the *_time local variables of the running test_*
    outcomes,       \* per local variable: how the scenario that set it ended
    all_outcomes,   \* per recorded category: how the scenario of each key ended
    all_results,    \* run_all_tests: all_results, in insertion order
    printed,        \* the lines the test_* functions have printed
    caught,         \* the exception run_all_tests caught, NoExc when none
    summary,        \* the summary lines printed so far
    exit_status,    \* -1 while running, 0 after a normal return, 1 on a crash
    response,       \* the response object the scenario got from the transport
    client,         \* the client object that outlives a scenario: the
                    \* module-level http, or the session of the test_*
    dur,            \* fan-out: how long the request to each url takes
    task,           \* fan-out: the state of the request to each url
    finished,       \* fan-out: the futures in the order they finished
    results,        \* fan-out: the results list of the scenario
    body,           \* streaming: the body the server sends
    chunk_size,     \* streaming: the chunk size the loop asks for
    pos,            \* streaming: how many bytes of the body have been read
    chunks,         \* streaming: the chunks list of stream_bytes_request
    total_bytes,    \* streaming: the byte count stream_bytes_request returns
    stream_lines,   \* streaming: the lines list of stream_lines_request
    num_lines,      \* streaming: the line count stream_lines_request returns
    content_type,   \* the Content-Type of the last request body sent
    sessions,       \* session handles created and not closed
    temp_files      \* temporary upload files: how many created and unlinked

\* the response and the long-lived client of the run
httpVars == <<response, client>>
\* the state of the fan-out scenarios
fanVars == <<dur, task, finished, results>>
\* the state of the chunk-reading loop
streamVars == <<body, chunk_size, pos, chunks, total_bytes>>
\* the state of the line-reading loop
lineVars == <<stream_lines, num_lines>>
\* the request body encoding, the session handles and the temporary files
resourceVars == <<content_type, sessions, temp_files>>

vars == <<script, pc, cat, step, clock, clockSteps, start_time, calls, result,
          exc, returned, swallowed, cause, retriesLeft, openConns, locals,
          outcomes, all_outcomes, all_results, printed, caught, summary,
          exit_status, httpVars, fanVars, streamVars, lineVars,
          resourceVars>>

----------------------------------------------------------------------------
(* Bounds of the model *)

\* longest connect time of one transport attempt
MaxConnect == 2
\* how far one adjustment sets the wall clock back
MaxStepBack == 2
\* how many times the wall clock is adjusted during a run
MaxClockSteps == 1
\* time an ordinary request takes
RequestTime == 1
\* longest time a request to /status/404, /status/500, /status/429 takes
MaxErrorTime == 2
\* longest body of /bytes/n
MaxBody == 5
\* largest chunk size of the chunk-reading loop
MaxChunk == 3
\* lines of the streamed body, and the characters of a line
MaxLines == 2
MaxLineLen == 2

----------------------------------------------------------------------------
(* Constants of the program *)

\* delay_5_timeout_request: timeout=3
TIMEOUT == 3
\* delay_5_timeout_request: /delay/5
DELAY_5 == 5
\* delay_1_request: /delay/1
DELAY_1 == 1
\* urllib3.PoolManager(): the default Retry(3)
DEFAULT_RETRIES == 3

Scripts == {"requests", "urllib3", "aiohttp", "httplib2", "urllib_request",
            "http_client"}

NoExc == "NoExc"
EmptyDict == [k \in {} |-> 0]

----------------------------------------------------------------------------
(* The scenario catalogue: what every test_* function calls, in order *)

\* a scenario called through the timing wrapper; var is the local variable
\* that receives the elapsed time
Timed(n, v) == [name |-> n, var |-> v]
\* a request a test_* function sends itself, outside any timed scenario
Untimed(n) == [name |-> n, var |-> ""]

\* the assignments all_results[...] = test_...() of run_all_tests, in order
Categories(s) ==
    LET common == <<"basic", "params", "body_formats", "auth", "cookies",
                    "errors", "redirects", "timeouts", "streaming",
                    "compression">>
    IN  CASE s \in {"requests", "aiohttp"} ->
                common \o <<"parallel", "upload", "formats", "sessions">>
          [] s = "urllib3" ->
                common \o <<"parallel", "upload", "formats">>
          [] OTHER ->
                common \o <<"upload", "formats">>

test_basic_requests(s) ==
    << Timed("get_request", "get_time"),
       Timed("post_json_request", "post_time"),
       Timed("put_request", "put_time"),
       Timed("delete_request", "delete_time") >>

test_params_and_headers(s) ==
    << Timed("get_with_params", "params_time"),
       Timed("get_with_headers", "headers_time"),
       Timed("get_user_agent", "ua_time") >>

test_request_body_formats(s) ==
    << Timed("post_json", "json_time"),
       Timed("post_form_data", "form_time"),
       Timed("post_raw_text", "text_time") >>

test_authentication(s) ==
    << Timed("basic_auth_request", "basic_time"),
       Timed("digest_auth_request", "digest_time") >>

test_cookies(s) ==
    CASE s = "requests" ->
            << Timed("set_cookies_request", "set_cookie_time"),
               Untimed("session.get /cookies/set"),
               Timed("get_cookies_request", "get_cookie_time") >>
      [] s = "aiohttp" ->
            << Timed("set_cookies_request", "set_cookie_time"),
               Timed("get_cookies_request", "get_cookie_time"),
               Untimed("session.get /cookies/set"),
               Untimed("session.get /cookies") >>
      [] OTHER ->
            << Timed("set_cookies_request", "set_cookie_time"),
               Timed("get_cookies_request", "get_cookie_time") >>

test_error_handling(s) ==
    << Timed("error_404_request", "error_time"),
       Timed("error_500_request", "error_time"),
       Timed("error_429_request", "error_time") >>

test_redirects(s) ==
    IF s = "http_client"
    THEN << Timed("redirect_3_request", "redirect_time"),
            Timed("redirect_to_request", "redirect_to_time") >>
    ELSE << Timed("redirect_3_request", "redirect_time"),
            Timed("redirect_to_request", "redirect_to_time"),
            Timed("no_redirect_request", "no_redirect_time") >>

test_timeouts(s) ==
    << Timed("delay_1_request", "delay1_time"),
       Timed("delay_5_timeout_request", "timeout_time") >>

test_streaming(s) ==
    << Timed("stream_lines_request", "stream_time"),
       Timed("stream_bytes_request", "bytes_time") >>

test_compression(s) ==
    IF s = "aiohttp"
    THEN << Timed("gzip_request", "gzip_time"),
            Untimed("session.get /gzip"),
            Timed("brotli_request", "brotli_time"),
            Untimed("session.get /brotli") >>
    ELSE << Timed("gzip_request", "gzip_time"),
            Timed("brotli_request", "brotli_time") >>

test_parallel_requests(s) ==
    IF s = "urllib3"
    THEN << Timed("parallel_requests", "parallel_time") >>
    ELSE << Timed("sequential_delays", "sequential_time"),
            Timed("parallel_delays", "parallel_time") >>

test_file_upload(s) ==
    IF s = "aiohttp"
    THEN << Timed("file_upload_request", "upload_time"),
            Untimed("session.post /post") >>
    ELSE << Timed("file_upload_request", "upload_time") >>

test_response_formats(s) ==
    IF s = "aiohttp"
    THEN << Timed("json_response_request", "json_time"),
            Untimed("session.get /json"),
            Timed("xml_response_request", "xml_time"),
            Untimed("session.get /xml"),
            Timed("html_response_request", "html_time"),
            Untimed("session.get /html"),
            Timed("image_response_request", "image_time"),
            Untimed("session.get /image/png") >>
    ELSE << Timed("json_response_request", "json_time"),
            Timed("xml_response_request", "xml_time"),
            Timed("html_response_request", "html_time"),
            Timed("image_response_request", "image_time") >>

test_sessions(s) ==
    IF s = "aiohttp"
    THEN << Timed("session_operations", "session_time"),
            Untimed("session.get /cookies/set"),
            Untimed("session.get /cookies") >>
    ELSE << Timed("session_set_cookie", "set_session_time"),
            Timed("session_get_cookie", "get_session_time"),
            Timed("session_headers_request", "headers_session_time") >>

\* the steps of category c of script s
Steps(s, c) ==
    CASE c = "basic"        -> test_basic_requests(s)
      [] c = "params"       -> test_params_and_headers(s)
      [] c = "body_formats" -> test_request_body_formats(s)
      [] c = "auth"         -> test_authentication(s)
      [] c = "cookies"      -> test_cookies(s)
      [] c = "errors"       -> test_error_handling(s)
      [] c = "redirects"    -> test_redirects(s)
      [] c = "timeouts"     -> test_timeouts(s)
      [] c = "streaming"    -> test_streaming(s)
      [] c = "compression"  -> test_compression(s)
      [] c = "parallel"     -> test_parallel_requests(s)
      [] c = "upload"       -> test_file_upload(s)
      [] c = "formats"      -> test_response_formats(s)
      [] c = "sessions"     -> test_sessions(s)

\* the dict a test_* function returns: key |-> local variable read for it
ReturnKeys(s, c) ==
    IF c = "errors"
    THEN << <<"error_handling_time", "error_time">> >>
    ELSE LET st == Steps(s, c)
             timed == SelectSeq(st, LAMBDA x : x.var # "")
         IN  [i \in 1..Len(timed) |-> <<timed[i].var, timed[i].var>>]

----------------------------------------------------------------------------
(* Exceptions: the classes the scripts name in except clauses and the ones *)
(* the libraries raise, with their base classes                            *)

Bases(e) ==
    CASE e = "requests.ConnectionError"   -> {"requests.RequestException"}
      [] e = "requests.ReadTimeout"       -> {"requests.Timeout"}
      [] e = "requests.ConnectTimeout"    -> {"requests.ConnectionError",
                                              "requests.Timeout"}
      [] e = "requests.Timeout"           -> {"requests.RequestException"}
      [] e = "requests.RequestException"  -> {"OSError"}
      [] e = "urllib3.MaxRetryError"      -> {"urllib3.HTTPError"}
      [] e = "urllib3.ReadTimeoutError"   -> {"urllib3.TimeoutError"}
      [] e = "urllib3.ConnectTimeoutError" -> {"urllib3.TimeoutError"}
      [] e = "urllib3.TimeoutError"       -> {"urllib3.HTTPError"}
      [] e = "urllib3.HTTPError"          -> {"Exception"}
      [] e = "asyncio.TimeoutError"       -> {"Exception"}
      [] e = "aiohttp.ClientConnectorError" -> {"aiohttp.ClientError"}
      [] e = "aiohttp.ClientError"        -> {"Exception"}
      [] e = "httplib2.ServerNotFoundError" -> {"Exception"}
      [] e = "urllib.error.URLError"      -> {"OSError"}
      [] e = "urllib.error.HTTPError"     -> {"urllib.error.URLError"}
      [] e = "requests.TooManyRedirects"  -> {"requests.RequestException"}
      [] e = "aiohttp.TooManyRedirects"   -> {"aiohttp.ClientError"}
      [] e = "httplib2.RedirectLimit"     -> {"Exception"}
      [] e = "TimeoutError"               -> {"OSError"}
      [] e = "ConnectionRefusedError"     -> {"OSError"}
      [] e = "OSError"                    -> {"Exception"}
      [] e = "AttributeError"             -> {"Exception"}
      [] e = "UnboundLocalError"          -> {"Exception"}
      [] e = "Exception"                  -> {"BaseException"}
      [] OTHER                            -> {}

\* isinstance(e, c): what an `except c` clause tests
RECURSIVE IsSubclass(_, _)
IsSubclass(e, c) == e = c \/ \E b \in Bases(e) : IsSubclass(b, c)

\* what the transport raises to the caller when a deadline expires
TimeoutExc(s) ==
    CASE s = "requests" -> "requests.ReadTimeout"
      [] s = "urllib3"  -> "urllib3.ReadTimeoutError"
      [] s = "aiohttp"  -> "asyncio.TimeoutError"
      [] OTHER          -> "TimeoutError"

\* what the transport raises to the caller when it cannot connect
\* (connection refused, DNS failure, TLS failure)
ConnExc(s) ==
    CASE s = "requests"       -> "requests.ConnectionError"
      [] s = "urllib3"        -> "urllib3.MaxRetryError"
      [] s = "aiohttp"        -> "aiohttp.ClientConnectorError"
      [] s = "httplib2"       -> "httplib2.ServerNotFoundError"
      [] s = "urllib_request" -> "urllib.error.URLError"
      [] OTHER                -> "ConnectionRefusedError"

\* the class named by the except clause of delay_5_timeout_request
Delay5Handler(s) ==
    CASE s = "requests" -> "requests.Timeout"
      [] s = "urllib3"  -> "urllib3.TimeoutError"
      [] s = "aiohttp"  -> "asyncio.TimeoutError"
      [] OTHER          -> "Exception"

\* what delay_5_timeout_request returns from its except clause
Delay5None(s) == IF s = "httplib2" THEN "NonePair" ELSE "None"

\* the class named by the except clauses of test_error_handling, "" when the
\* calls are not inside a try
ErrorHandler(s) ==
    CASE s = "requests" -> "requests.RequestException"
      [] s = "aiohttp"  -> "aiohttp.ClientError"
      [] OTHER          -> ""

\* an except clause that names a narrower class than Exception
RunAllCatches_OnlyOSError(e) == IsSubclass(e, "OSError")

\* except Exception as e, in run_all_tests
RunAllCatches(e) == IsSubclass(e, "Exception")

----------------------------------------------------------------------------
(* Helpers *)

CurCat == Categories(script)[cat]
CurSteps == Steps(script, CurCat)
CurStep == CurSteps[step]

\* d[k] = v on a dict
Assign(d, k, v) == (k :> v) @@ d

\* the local variables a test_* function has before its first call
InitLocals(s, c) ==
    IF s = "aiohttp" /\ c = "errors" THEN ("error_time" :> 0) ELSE EmptyDict

InitOutcomes(s, c) ==
    IF s = "aiohttp" /\ c = "errors" THEN ("error_time" :> "default")
    ELSE [k \in {} |-> ""]

\* conn = create_connection(); conn.request(...): the socket connects
Connect(n) == n + 1

\* conn.close()
Close(n) == n - 1

\* time the server holds the request of a scenario back
ServerTime(n) == IF n = "delay_1_request" THEN DELAY_1 ELSE 0

\* a wrapper that returns the elapsed time but drops the result
WrapperReturn_DropsResult(r, start, now) == <<"None", now - start>>

\* measure_time.wrapper: return result, execution_time
WrapperReturn(r, start, now) == <<r, now - start>>

----------------------------------------------------------------------------
(* The HTTP exchange of a scenario: the url it asks for, what the server   *)
(* at BASE_URL answers, and what the client library does with the answer   *)

\* /cookies/set?session=abc123 and /cookies/set?session=test
COOKIE_ABC == "session=abc123"
COOKIE_TEST == "session=test"

\* a client object as it is constructed: no credentials, no persistent
\* headers, no cookies
FreshClient == [creds |-> {}, headers |-> {}, cookies |-> {}]

\* no response object
NoResponse == [status |-> 0, url |-> "", sent |-> 0, cookies |-> {}]

\* the url a scenario asks for (the last one when it sends several)
Path(n) ==
    CASE n = "error_404_request"   -> "/status/404"
      [] n = "error_500_request"   -> "/status/500"
      [] n = "error_429_request"   -> "/status/429"
      [] n = "redirect_3_request"  -> "/redirect/3"
      [] n = "redirect_to_request" -> "/redirect-to?url=/get"
      [] n = "no_redirect_request" -> "/redirect/1"
      [] n = "set_cookies_request" -> "/cookies/set?session=abc123"
      [] n = "get_cookies_request" -> "/cookies"
      [] n = "session_set_cookie"  -> "/cookies/set?session=test"
      [] n = "session_get_cookie"  -> "/cookies"
      [] OTHER                     -> "/get"

\* the url of the feature a scenario is named after
FeatureUrl(n) ==
    CASE n = "digest_auth_request" -> "/digest-auth/auth/user/pass"
      [] n = "brotli_request"      -> "/brotli"
      [] OTHER                     -> Path(n)

\* the url the scenario function of script s asks for: the scripts whose
\* library has no digest authentication or no brotli decoding ask for /get
\* instead
RequestUrl(s, n) ==
    CASE /\ n = "digest_auth_request"
         /\ s \in {"urllib3", "aiohttp", "urllib_request", "http_client"}
            -> "/get"
      [] n = "brotli_request" /\ s \in {"urllib_request", "http_client"}
            -> "/get"
      [] OTHER -> FeatureUrl(n)

Answer(st, loc, ck) == [status |-> st, location |-> loc, set_cookie |-> ck]

\* what the server answers to one request for a url
Server(path) ==
    CASE path = "/status/404" -> Answer(404, "", {})
      [] path = "/status/500" -> Answer(500, "", {})
      [] path = "/status/429" -> Answer(429, "", {})
      [] path = "/redirect/3" -> Answer(302, "/relative-redirect/2", {})
      [] path = "/relative-redirect/2" ->
            Answer(302, "/relative-redirect/1", {})
      [] path = "/relative-redirect/1" -> Answer(302, "/get", {})
      [] path = "/redirect/1" -> Answer(302, "/get", {})
      [] path = "/redirect-to?url=/get" -> Answer(302, "/get", {})
      [] path = "/cookies/set?session=abc123" ->
            Answer(302, "/cookies", {COOKIE_ABC})
      [] path = "/cookies/set?session=test" ->
            Answer(302, "/cookies", {COOKIE_TEST})
      [] OTHER -> Answer(200, "", {})

\* whether the client the scenario uses follows a 3xx answer.  http.client
\* never does (the follow_redirects attribute set in its
\* no_redirect_request means nothing to HTTPSConnection).  In the
\* urllib.request script no_redirect_request filters HTTPRedirectHandler
\* out of the handlers and calls build_opener(*handlers), which adds every
\* default handler class that is missing from its arguments, the
\* HTTPRedirectHandler among them.
FollowsRedirects(s, n) ==
    CASE s = "http_client"         -> FALSE
      [] n = "no_redirect_request" -> s = "urllib_request"
      [] OTHER                     -> TRUE

\* how many redirects the client follows before it gives up
MaxRedirects(s) ==
    CASE s = "requests"       -> 30
      [] s = "urllib3"        -> DEFAULT_RETRIES
      [] s = "aiohttp"        -> 10
      [] s = "httplib2"       -> 5
      [] s = "urllib_request" -> 10
      [] OTHER                -> 0

\* whether the client the scenario uses stores the cookies of a Set-Cookie
\* answer and sends them with its next requests: a requests Session (also
\* the one inside requests.get), an aiohttp ClientSession, and the opener
\* with the HTTPCookieProcessor of get_cookies_request
KeepsCookies(s, n) ==
    CASE s \in {"requests", "aiohttp"} -> TRUE
      [] s = "urllib_request"           -> n = "get_cookies_request"
      [] OTHER                          -> FALSE

\* the Cookie header the scenario passes itself
CookieHeader(s, n) ==
    IF s = "urllib3" /\ n = "get_cookies_request" THEN {COOKIE_ABC} ELSE {}

\* whether the scenario sends its requests through the long-lived client:
\* the session argument, the module-level http
UsesClient(s, n) ==
    CASE s = "requests" -> n \in {"get_cookies_request", "session_set_cookie",
                                  "session_get_cookie",
                                  "session_headers_request"}
      [] s = "httplib2" -> n # "no_redirect_request"
      [] s = "urllib3"  -> TRUE
      [] OTHER          -> FALSE

\* get_cookies_request asks for /cookies/set?session=abc123 itself before
\* it asks for /cookies
SetsFirst(s, n) ==
    /\ n = "get_cookies_request"
    /\ s \in {"aiohttp", "httplib2", "urllib_request"}

\* one request of the client and the redirects it follows: the final
\* status and url, how many requests went out, the cookies the final
\* request carried, and the cookie store afterwards
RECURSIVE Fetch(_, _, _, _, _, _)
Fetch(path, follow, limit, jar, keeps, sent) ==
    LET a    == Server(path)
        jar2 == IF keeps THEN jar \cup a.set_cookie ELSE jar
    IN  IF a.status \in 300..399 /\ follow /\ sent < limit
        THEN Fetch(a.location, follow, limit, jar2, keeps, sent + 1)
        ELSE [status |-> a.status, url |-> path, sent |-> sent + 1,
              cookies |-> jar, jar |-> jar2,
              exceeded |-> a.status \in 300..399 /\ follow]

\* the requests of one scenario
Exchange(s, n, cl) ==
    LET jar0  == (IF UsesClient(s, n) THEN cl.cookies ELSE {})
                    \cup CookieHeader(s, n)
        keeps == KeepsCookies(s, n)
        first == Fetch("/cookies/set?session=abc123", TRUE, MaxRedirects(s),
                       jar0, keeps, 0)
        jar1  == IF SetsFirst(s, n) THEN first.jar ELSE jar0
    IN  Fetch(Path(n), FollowsRedirects(s, n), MaxRedirects(s), jar1, keeps,
              0)

\* the response object of an exchange
Received(x) ==
    [status |-> x.status, url |-> x.url, sent |-> x.sent,
     cookies |-> x.cookies]

\* what the client raises when it gives up following redirects
RedirectExc(s) ==
    CASE s = "requests"       -> "requests.TooManyRedirects"
      [] s = "urllib3"        -> "urllib3.MaxRetryError"
      [] s = "aiohttp"        -> "aiohttp.TooManyRedirects"
      [] s = "httplib2"       -> "httplib2.RedirectLimit"
      [] OTHER                -> "urllib.error.HTTPError"

\* urllib.request signals every final status outside 2xx by raising
\* HTTPError; the other libraries return the response
TransportRaises(s, x) ==
    s = "urllib_request" /\ x.status \notin 200..299

\* no scenario has an except clause for HTTPError
CatchesHTTPError_Never(s, n) == FALSE

\* the scenarios with try ... except urllib.error.HTTPError as e: return e
CatchesHTTPError(s, n) ==
    /\ s = "urllib_request"
    /\ n \in {"error_404_request", "error_500_request", "error_429_request",
              "no_redirect_request"}

\* the exception that leaves the scenario after an exchange, NoExc when it
\* returns
ScenarioRaises(s, n, x) ==
    IF x.exceeded THEN RedirectExc(s)
    ELSE IF TransportRaises(s, x) /\ ~CatchesHTTPError(s, n)
         THEN "urllib.error.HTTPError"
         ELSE NoExc

\* what a scenario does to the long-lived client before it sends:
\* http.add_credentials('user', 'pass') on the module-level http
ClientBefore(s, n, cl) ==
    IF s = "httplib2" /\ n = "digest_auth_request"
    THEN [cl EXCEPT !.creds = @ \cup {"user:pass"}]
    ELSE cl

\* the long-lived client after the exchange: a session keeps its cookies
ClientAfter(s, n, cl, x) ==
    IF UsesClient(s, n) /\ KeepsCookies(s, n)
    THEN [cl EXCEPT !.cookies = x.jar]
    ELSE cl

\* what a request of the test_* function itself does to the client:
\* session.get(.../cookies/set?session=abc123) of test_cookies
ClientAfterUntimed(s, n, cl) ==
    IF s = "requests" /\ n = "session.get /cookies/set"
    THEN [cl EXCEPT !.cookies =
              Fetch("/cookies/set?session=abc123", TRUE, MaxRedirects(s),
                    cl.cookies, TRUE, 0).jar]
    ELSE cl

\* what the test_* function does to the client after a scenario:
\* session.headers.update({'X-Session-Header': ...}) of test_sessions
ClientAfterStep(s, n, cl) ==
    IF s = "requests" /\ n = "session_get_cookie"
    THEN [cl EXCEPT !.headers = @ \cup {"X-Session-Header"}]
    ELSE cl

\* the client a test_* function starts with: the module-level http lives
\* on, a session is constructed by the function
ClientAtEntry(s, cl) ==
    IF s \in {"httplib2", "urllib3"} THEN cl ELSE FreshClient

\* the time the request of a scenario takes on the network
RequestTimes(n) ==
    IF n \in {"error_404_request", "error_500_request", "error_429_request"}
    THEN RequestTime..MaxErrorTime
    ELSE {RequestTime}

----------------------------------------------------------------------------
(* The transport of the /delay/5 request with the 3 second timeout *)

\* what one attempt of the transport can do: the time it takes, how it
\* ends, and whether it got as far as a connected socket.  The socket
\* timeout of requests, urllib3, httplib2, urllib.request and http.client
\* bounds the connect and the wait for the response separately; aiohttp's
\* ClientTimeout(total=3.0) bounds the whole exchange.
AttemptOutcomes(s) ==
    LET refused == {[dt |-> c, cause |-> "connection", connected |-> FALSE] :
                        c \in {x \in 0..MaxConnect : x < TIMEOUT}}
        perOp   == {IF c >= TIMEOUT
                    THEN [dt |-> TIMEOUT, cause |-> "timeout",
                          connected |-> FALSE]
                    ELSE IF DELAY_5 >= TIMEOUT
                         THEN [dt |-> c + TIMEOUT, cause |-> "timeout",
                               connected |-> TRUE]
                         ELSE [dt |-> c + DELAY_5, cause |-> "response",
                               connected |-> TRUE] :
                        c \in 0..MaxConnect}
        total   == {IF c + DELAY_5 >= TIMEOUT
                    THEN [dt |-> TIMEOUT, cause |-> "timeout",
                          connected |-> c < TIMEOUT]
                    ELSE [dt |-> c + DELAY_5, cause |-> "response",
                          connected |-> TRUE] :
                        c \in 0..MaxConnect}
    IN  refused \cup (IF s = "aiohttp" THEN total ELSE perOp)

\* the exception a failed exchange raises to delay_5_timeout_request
Delay5Raises(s, why) ==
    IF s = "urllib3" THEN "urllib3.MaxRetryError"
    ELSE IF why = "timeout" THEN TimeoutExc(s) ELSE ConnExc(s)

----------------------------------------------------------------------------
(* Request bodies, session handles and temporary files *)

MULTIPART == "multipart/form-data"
URLENCODED == "application/x-www-form-urlencoded"

\* the Content-Type of the body file_upload_request posts: files= of
\* requests, fields= of urllib3 and FormData of aiohttp are encoded as a
\* multipart body with a boundary; the other scripts post
\* urllib.parse.urlencode(...) under the header they set themselves
UploadContentType(s) ==
    IF s \in {"requests", "urllib3", "aiohttp"} THEN MULTIPART
    ELSE URLENCODED

\* the scenarios and requests that write a temporary file and post it
MakesTempFile(n) == n \in {"file_upload_request", "session.post /post"}

\* the Content-Type of the body a scenario posts; only the bodies of the
\* uploads are part of the model
ContentType(s, n) ==
    CASE n = "file_upload_request" -> UploadContentType(s)
      [] n = "session.post /post"  -> MULTIPART
      [] OTHER                     -> ""

\* no temporary file has been created
NoTempFiles == [created |-> 0, unlinked |-> 0]

\* tempfile.NamedTemporaryFile(mode='w', delete=False, suffix='.txt')
CreateTemp(t) == [t EXCEPT !.created = @ + 1]

\* os.unlink(temp_file_path)
Unlink(t) == [t EXCEPT !.unlinked = @ + 1]

\* an unlink that is skipped when the request has raised
RunsUnlink_OnlyOnSuccess(s, failed) == ~failed

\* whether os.unlink runs: it stands in the finally clause of the try
\* around the request, in every script
RunsUnlink(s, failed) == TRUE

\* the temporary files after an upload: created before the try, unlinked
\* in its finally clause
UploadFiles(s, t, failed) ==
    IF RunsUnlink(s, failed) THEN Unlink(CreateTemp(t)) ELSE CreateTemp(t)

\* requests.Session(), aiohttp.ClientSession()
OpenSession(k) == k + 1

\* the end of async with aiohttp.ClientSession() as session
CloseSession(k) == k - 1

\* the session handles after a timed scenario: with_aiohttp_session wraps
\* the call in async with aiohttp.ClientSession(); a scenario of the other
\* scripts gets its session, if any, from the caller
SessionsInCall(s, n, k) ==
    IF s = "aiohttp" THEN CloseSession(OpenSession(k)) ELSE k

\* the session handles after a request of the test_* function itself:
\* test_cookies of the requests script constructs its session right
\* before the request, the aiohttp functions use async with
SessionsUntimed(s, n, k) ==
    CASE s = "requests" /\ n = "session.get /cookies/set" -> OpenSession(k)
      [] s = "aiohttp" -> CloseSession(OpenSession(k))
      [] OTHER -> k

\* the session handles when a test_* function starts: test_sessions of
\* the requests script begins with session = requests.Session()
SessionsAtEntry(s, c, k) ==
    IF s = "requests" /\ c = "sessions" THEN OpenSession(k) ELSE k

----------------------------------------------------------------------------
(* Init: run_all_tests has just set all_results = {} *)

\* no fan-out scenario is running
FanIdle ==
    /\ dur = <<>>
    /\ task = <<>>
    /\ finished = <<>>
    /\ results = <<>>

\* no chunk-reading loop is running
StreamIdle ==
    /\ body = <<>>
    /\ chunk_size = 0
    /\ pos = 0
    /\ chunks = <<>>
    /\ total_bytes = 0

\* no line-reading loop is running
LinesIdle ==
    /\ stream_lines = <<>>
    /\ num_lines = 0

\* no request body sent, no session handle and no temporary file yet
NoResources ==
    /\ content_type = ""
    /\ sessions = 0
    /\ temp_files = NoTempFiles

Init ==
    /\ script \in Scripts
    /\ pc = "test"
    /\ cat = 1
    /\ step = 1
    /\ clock = 0
    /\ clockSteps = 0
    /\ start_time = 0
    /\ calls = 0
    /\ result = "None"
    /\ exc = NoExc
    /\ returned = <<>>
    /\ swallowed = NoExc
    /\ cause = "none"
    /\ retriesLeft = 0
    /\ openConns = 0
    /\ locals = InitLocals(script, Categories(script)[1])
    /\ outcomes = InitOutcomes(script, Categories(script)[1])
    /\ all_outcomes = <<>>
    /\ all_results = <<>>
    /\ printed = <<>>
    /\ caught = NoExc
    /\ summary = <<>>
    /\ exit_status = -1
    /\ response = NoResponse
    /\ client = FreshClient
    /\ FanIdle
    /\ StreamIdle
    /\ LinesIdle
    /\ NoResources

----------------------------------------------------------------------------
(* measure_time / measure_time_async *)

\* wrapper: start_time = time.time()
WrapperStart ==
    /\ pc = "test"
    /\ step <= Len(CurSteps)
    /\ CurStep.var # ""
    /\ start_time' = clock
    /\ calls' = 0
    /\ returned' = <<>>
    /\ pc' = "call"
    /\ UNCHANGED <<script, cat, step, clock, clockSteps, result, exc,
                   swallowed, cause, retriesLeft, openConns, locals,
                   outcomes, all_outcomes, all_results, printed, caught,
                   summary, exit_status>>
    /\ UNCHANGED <<httpVars, fanVars, streamVars>>
    /\ UNCHANGED <<lineVars, resourceVars>>

\* wrapper: result = func(*args, **kwargs), for every scenario but
\* delay_5_timeout_request: one request that is answered or cannot connect.
\* An answered http.client request has connected and called conn.close();
\* one that cannot connect never had a socket.  d is the time the request
\* takes on the network.
CallTaking(d) ==
    /\ pc = "call"
    /\ CurStep.name # "delay_5_timeout_request"
    /\ calls' = calls + 1
    /\ \E ok \in BOOLEAN :
          LET before == ClientBefore(script, CurStep.name, client)
              x == Exchange(script, CurStep.name, before)
              e == IF ok THEN ScenarioRaises(script, CurStep.name, x)
                   ELSE ConnExc(script)
          IN  /\ clock' = clock + d
                            + (IF ok THEN ServerTime(CurStep.name) ELSE 0)
              /\ result' = IF e = NoExc THEN "response" ELSE "None"
              /\ exc' = e
              /\ cause' = IF ok THEN "response" ELSE "connection"
              /\ response' = IF ok THEN Received(x) ELSE NoResponse
              /\ client' = IF ok
                            THEN ClientAfter(script, CurStep.name, before, x)
                            ELSE before
              /\ openConns' = IF script = "http_client" /\ ok
                              THEN Close(Connect(openConns)) ELSE openConns
              /\ content_type' = IF ok
                                  THEN ContentType(script, CurStep.name)
                                  ELSE ""
              /\ temp_files' = IF MakesTempFile(CurStep.name)
                               THEN UploadFiles(script, temp_files,
                                                e # NoExc)
                               ELSE temp_files
    /\ sessions' = SessionsInCall(script, CurStep.name, sessions)
    /\ pc' = "stop"
    /\ UNCHANGED <<script, cat, step, clockSteps, start_time, returned,
                   swallowed, retriesLeft, locals, outcomes, all_outcomes,
                   all_results, printed, caught, summary, exit_status>>
    /\ UNCHANGED <<fanVars, streamVars>>
    /\ UNCHANGED lineVars

\* the call of a scenario whose request takes the ordinary time
Call == CallTaking(RequestTime)

\* the call of a scenario whose request takes any of the times the network
\* allows for it
CallAnyTime ==
    /\ pc = "call"
    /\ \E d \in RequestTimes(CurStep.name) : CallTaking(d)

\* wrapper: result = func(), for delay_5_timeout_request: enter the try
Delay5Call ==
    /\ pc = "call"
    /\ CurStep.name = "delay_5_timeout_request"
    /\ calls' = calls + 1
    /\ retriesLeft' = IF script = "urllib3" THEN DEFAULT_RETRIES ELSE 0
    /\ swallowed' = NoExc
    /\ pc' = "attempt"
    /\ UNCHANGED <<script, cat, step, clock, clockSteps, start_time, result,
                   exc, returned, cause, openConns, locals, outcomes,
                   all_outcomes, all_results, printed, caught, summary,
                   exit_status>>
    /\ UNCHANGED <<httpVars, fanVars, streamVars>>
    /\ UNCHANGED <<lineVars, resourceVars>>

\* one exchange of the transport for /delay/5 with timeout 3
Delay5Attempt ==
    /\ pc = "attempt"
    /\ \E o \in AttemptOutcomes(script) :
          /\ clock' = clock + o.dt
          /\ cause' = o.cause
          /\ IF o.cause = "response"
             THEN /\ result' = "response"
                  /\ exc' = NoExc
                  /\ openConns' = IF script = "http_client"
                                  THEN Close(Connect(openConns)) ELSE openConns
                  /\ response' = Received(Exchange(script, CurStep.name,
                                                   client))
                  /\ pc' = "stop"
                  /\ UNCHANGED retriesLeft
             ELSE IF retriesLeft > 0
             THEN /\ retriesLeft' = retriesLeft - 1
                  /\ pc' = "attempt"
                  /\ UNCHANGED <<result, exc, openConns, response>>
             ELSE /\ exc' = Delay5Raises(script, o.cause)
                  /\ openConns' = IF script = "http_client" /\ o.connected
                                  THEN Connect(openConns) ELSE openConns
                  /\ response' = NoResponse
                  /\ pc' = "d5_except"
                  /\ UNCHANGED <<result, retriesLeft>>
    /\ UNCHANGED <<script, cat, step, clockSteps, start_time, calls,
                   returned, swallowed, locals, outcomes, all_outcomes,
                   all_results, printed, caught, summary, exit_status>>
    /\ UNCHANGED <<client, fanVars, streamVars>>
    /\ UNCHANGED <<lineVars, resourceVars>>

\* delay_5_timeout_request: the except clause
Delay5Except ==
    /\ pc = "d5_except"
    /\ IF IsSubclass(exc, Delay5Handler(script))
       THEN /\ result' = Delay5None(script)
            /\ swallowed' = exc
            /\ exc' = NoExc
       ELSE UNCHANGED <<result, swallowed, exc>>
    /\ pc' = "stop"
    /\ UNCHANGED <<script, cat, step, clock, clockSteps, start_time, calls,
                   returned, cause, retriesLeft, openConns, locals, outcomes,
                   all_outcomes, all_results, printed, caught, summary,
                   exit_status>>
    /\ UNCHANGED <<httpVars, fanVars, streamVars>>
    /\ UNCHANGED <<lineVars, resourceVars>>

\* wrapper: execution_time = time.time() - start_time; return result,
\* execution_time.  An exception of func leaves the wrapper at the call.
WrapperStop ==
    /\ pc = "stop"
    /\ IF exc = NoExc
       THEN /\ returned' = WrapperReturn(result, start_time, clock)
            /\ pc' = "ret"
       ELSE /\ returned' = <<>>
            /\ pc' = "propagate"
    /\ UNCHANGED <<script, cat, step, clock, clockSteps, start_time, calls,
                   result, exc, swallowed, cause, retriesLeft, openConns,
                   locals, outcomes, all_outcomes, all_results, printed,
                   caught, summary, exit_status>>
    /\ UNCHANGED <<httpVars, fanVars, streamVars>>
    /\ UNCHANGED <<lineVars, resourceVars>>

\* the wall clock is set back between the two reads of the wrapper
\* (time.time() is not monotonic); an adjustment anywhere between the reads
\* changes their difference as one right before the second read does
ClockStep ==
    /\ pc = "stop"
    /\ clockSteps < MaxClockSteps
    /\ \E k \in 1..MaxStepBack : clock' = clock - k
    /\ clockSteps' = clockSteps + 1
    /\ UNCHANGED <<script, pc, cat, step, start_time, calls, result, exc,
                   returned, swallowed, cause, retriesLeft, openConns,
                   locals, outcomes, all_outcomes, all_results, printed,
                   caught, summary, exit_status>>
    /\ UNCHANGED <<httpVars, fanVars, streamVars>>
    /\ UNCHANGED <<lineVars, resourceVars>>

----------------------------------------------------------------------------
(* The test_* functions *)

\* a request a test_* function sends outside the timed scenarios
UntimedRequest ==
    /\ pc = "test"
    /\ step <= Len(CurSteps)
    /\ CurStep.var = ""
    /\ clock' = clock + RequestTime
    /\ sessions' = SessionsUntimed(script, CurStep.name, sessions)
    /\ \E ok \in BOOLEAN :
          /\ content_type' = IF ok THEN ContentType(script, CurStep.name)
                              ELSE ""
          /\ temp_files' = IF MakesTempFile(CurStep.name)
                           THEN UploadFiles(script, temp_files, ~ok)
                           ELSE temp_files
          /\ IF ok
             THEN /\ step' = step + 1
                  /\ client' = ClientAfterUntimed(script, CurStep.name,
                                                  client)
                  /\ UNCHANGED <<pc, exc, cause>>
             ELSE /\ exc' = ConnExc(script)
                  /\ cause' = "connection"
                  /\ pc' = "propagate"
                  /\ UNCHANGED <<step, client>>
    /\ UNCHANGED <<script, cat, clockSteps, start_time, calls, result,
                   returned, swallowed, retriesLeft, openConns, locals,
                   outcomes, all_outcomes, all_results, printed, caught,
                   summary, exit_status>>
    /\ UNCHANGED <<response, fanVars, streamVars>>
    /\ UNCHANGED lineVars

\* response, x_time = scenario(), and the print that follows.  test_timeouts
\* prints the timeout line when the result is None; the httplib2 script gets
\* the pair (None, None), takes the else branch and reads response.status.
TestStep ==
    /\ pc = "ret"
    /\ LET r == returned[1]
           t == returned[2]
       IN  /\ locals' = Assign(locals, CurStep.var, t)
           /\ outcomes' = Assign(outcomes, CurStep.var,
                                 IF r = "response" THEN "response"
                                 ELSE "failure")
           /\ IF r = "NonePair"
              THEN /\ exc' = "AttributeError"
                   /\ pc' = "propagate"
                   /\ UNCHANGED <<printed, step, client>>
              ELSE /\ printed' = Append(printed,
                          [cat |-> CurCat, name |-> CurStep.name,
                           kind |-> IF r = "None" THEN "timeout"
                                    ELSE "status",
                           time |-> t])
                   /\ client' = ClientAfterStep(script, CurStep.name,
                                                client)
                   /\ step' = step + 1
                   /\ pc' = "test"
                   /\ UNCHANGED exc
    /\ UNCHANGED <<script, cat, clock, clockSteps, start_time, calls, result,
                   returned, swallowed, cause, retriesLeft, openConns,
                   all_outcomes, all_results, caught, summary, exit_status>>
    /\ UNCHANGED <<response, fanVars, streamVars>>
    /\ UNCHANGED <<lineVars, resourceVars>>

\* an exception arrives in a test_* function: the try/except around each
\* call of test_error_handling (requests, aiohttp) prints it and goes on,
\* everything else leaves the function
TestExcept ==
    /\ pc = "propagate"
    /\ IF /\ CurCat = "errors"
          /\ step <= Len(CurSteps)
          /\ ErrorHandler(script) # ""
          /\ IsSubclass(exc, ErrorHandler(script))
       THEN /\ printed' = Append(printed,
                   [cat |-> CurCat, name |-> CurStep.name,
                    kind |-> "exception"])
            /\ exc' = NoExc
            /\ step' = step + 1
            /\ pc' = "test"
       ELSE /\ pc' = "except"
            /\ UNCHANGED <<printed, exc, step>>
    /\ UNCHANGED <<script, cat, clock, clockSteps, start_time, calls, result,
                   returned, swallowed, cause, retriesLeft, openConns,
                   locals, outcomes, all_outcomes, all_results, caught,
                   summary, exit_status>>
    /\ UNCHANGED <<httpVars, fanVars, streamVars>>
    /\ UNCHANGED <<lineVars, resourceVars>>

\* return {...} of a test_* function and all_results[name] = ... of
\* run_all_tests; reading a local variable that was never assigned raises
CategoryReturn ==
    /\ pc = "test"
    /\ step > Len(CurSteps)
    /\ LET keys == ReturnKeys(script, CurCat)
           K == {keys[i][1] : i \in 1..Len(keys)}
           V(k) == (CHOOSE i \in 1..Len(keys) : keys[i][1] = k)
           varOf(k) == keys[V(k)][2]
       IN  IF \E k \in K : varOf(k) \notin DOMAIN locals
           THEN /\ exc' = "UnboundLocalError"
                /\ pc' = "propagate"
                /\ UNCHANGED <<cat, step, locals, outcomes, all_outcomes,
                               all_results, client, sessions>>
           ELSE /\ all_results' = Append(all_results,
                       [name |-> CurCat,
                        results |-> [k \in K |-> locals[varOf(k)]]])
                /\ all_outcomes' = Append(all_outcomes,
                       [k \in K |-> outcomes[varOf(k)]])
                /\ IF cat < Len(Categories(script))
                   THEN /\ cat' = cat + 1
                        /\ step' = 1
                        /\ locals' = InitLocals(script,
                                                Categories(script)[cat + 1])
                        /\ outcomes' = InitOutcomes(script,
                                                Categories(script)[cat + 1])
                        /\ client' = ClientAtEntry(script, client)
                        /\ sessions' = SessionsAtEntry(script,
                               Categories(script)[cat + 1], sessions)
                        /\ UNCHANGED pc
                   ELSE /\ pc' = "summary"
                        /\ UNCHANGED <<cat, step, locals, outcomes, client,
                                       sessions>>
                /\ UNCHANGED exc
    /\ UNCHANGED <<script, clock, clockSteps, start_time, calls, result,
                   returned, swallowed, cause, retriesLeft, openConns,
                   printed, caught, summary, exit_status>>
    /\ UNCHANGED <<response, fanVars, streamVars>>
    /\ UNCHANGED lineVars
    /\ UNCHANGED <<content_type, temp_files>>

----------------------------------------------------------------------------
(* run_all_tests *)

\* except Exception as e: print(...)
RunAllExcept ==
    /\ pc = "except"
    /\ IF RunAllCatches(exc)
       THEN /\ caught' = exc
            /\ exc' = NoExc
            /\ pc' = "summary"
            /\ UNCHANGED exit_status
       ELSE /\ pc' = "crashed"
            /\ exit_status' = 1
            /\ UNCHANGED <<caught, exc>>
    /\ UNCHANGED <<script, cat, step, clock, clockSteps, start_time, calls,
                   result, returned, swallowed, cause, retriesLeft,
                   openConns, locals, outcomes, all_outcomes, all_results,
                   printed, summary>>
    /\ UNCHANGED <<httpVars, fanVars, streamVars>>
    /\ UNCHANGED <<lineVars, resourceVars>>

\* sum(times)
RECURSIVE SumOf(_, _)
SumOf(d, ks) ==
    IF ks = {} THEN 0
    ELSE LET k == CHOOSE x \in ks : TRUE
         IN  d[k] + SumOf(d, ks \ {k})

\* k.endswith('_time')
EndsWithTime(k) ==
    LET n == Len(k) IN n >= 5 /\ SubSeq(k, n - 4, n) = "_time"

\* a summary line that finds no times in the item
SummaryLine_NoTimes(entry) == [name |-> entry.name, total |-> 0, count |-> 0]

\* the body of the summary loop for one item of all_results:
\* times = [v for k, v in results.items() if k.endswith('_time')];
\* avg_time = sum(times) / len(times), kept as the pair total, count
SummaryLine(entry) ==
    LET ks == {k \in DOMAIN entry.results : EndsWithTime(k)}
    IN  [name |-> entry.name, total |-> SumOf(entry.results, ks),
         count |-> Cardinality(ks)]

\* the summary loop: for test_name, results in all_results.items(), a line
\* for every item that has times
RECURSIVE SummaryLines(_)
SummaryLines(items) ==
    IF items = <<>> THEN <<>>
    ELSE LET line == SummaryLine(Head(items))
         IN  (IF line.count > 0 THEN <<line>> ELSE <<>>)
                 \o SummaryLines(Tail(items))

\* the rest of run_all_tests after the try: the summary loop and
\* return all_results; the script ends
Summary ==
    /\ pc = "summary"
    /\ summary' = SummaryLines(all_results)
    /\ pc' = "done"
    /\ exit_status' = 0
    /\ UNCHANGED <<script, cat, step, clock, clockSteps, start_time, calls,
                   result, exc, returned, swallowed, cause, retriesLeft,
                   openConns, locals, outcomes, all_outcomes, all_results,
                   printed, caught>>
    /\ UNCHANGED <<httpVars, fanVars, streamVars>>
    /\ UNCHANGED <<lineVars, resourceVars>>

----------------------------------------------------------------------------

Next ==
    \/ WrapperStart
    \/ Call
    \/ Delay5Call
    \/ Delay5Attempt
    \/ Delay5Except
    \/ WrapperStop
    \/ UntimedRequest
    \/ TestStep
    \/ TestExcept
    \/ CategoryReturn
    \/ RunAllExcept
    \/ Summary

\* a run whose wall clock only moves forward
Spec == Init /\ [][Next]_vars

\* a run during which the wall clock may also be set back
NextWallClock ==
    \/ Next
    \/ ClockStep

SpecWallClock == Init /\ [][NextWallClock]_vars

\* a run in which the requests to the error urls take different times
NextAnyTime ==
    \/ Next
    \/ CallAnyTime

SpecAnyTime == Init /\ [][NextAnyTime]_vars

----------------------------------------------------------------------------
(* The fan-out scenarios: test_async_parallel (requests), the async        *)
(* test_parallel_requests (aiohttp) and test_parallel_requests (urllib3),  *)
(* called on their own.  A request to /delay/k takes its connect time plus *)
(* k; the same url takes the same time in the sequential and in the        *)
(* concurrent scenario.  Submitting, starting a worker and collecting a    *)
(* result take no time: the clock only advances when nothing else can run. *)

\* the urls list: /delay/1, /delay/2, /delay/3
DELAYS == <<1, 2, 3>>

Urls == 1..Len(DELAYS)

FanOutScripts == {"requests", "aiohttp", "urllib3"}

\* the scenarios that loop over the urls and wait for every response
LoopsOverUrls(n) == n \in {"sequential_delays", "parallel_requests"}

\* the position of a category in the order of run_all_tests
CategoryIndex(s, c) ==
    CHOOSE i \in 1..Len(Categories(s)) : Categories(s)[i] = c

NewTask == [state |-> "new", left |-> 0, nth |-> 0]

Tasks(st) == {i \in Urls : task[i].state = st}

\* an executor with two worker threads
CanStart_TwoWorkers(s, running) ==
    IF s = "requests" THEN running < 2 ELSE TRUE

\* whether a submitted request can start while `running` others are in
\* flight: ThreadPoolExecutor(max_workers=3) has three worker threads, the
\* tasks of asyncio.gather all start
CanStart(s, running) ==
    IF s = "requests" THEN running < 3 ELSE TRUE

\* as_completed that yields the newest finished future first
AsCompleted_Newest(f) == f[Len(f)]

\* as_completed(futures): the next future it yields, the one that finished
\* first among those not yet yielded
AsCompleted(f) == Head(f)

\* the status of a request that was answered
StatusOf(i) == Server("/delay").status

InitFanOut ==
    /\ script \in FanOutScripts
    /\ pc = "test"
    /\ cat = CategoryIndex(script, "parallel")
    /\ step = 1
    /\ clock = 0
    /\ clockSteps = 0
    /\ start_time = 0
    /\ calls = 0
    /\ result = "None"
    /\ exc = NoExc
    /\ returned = <<>>
    /\ swallowed = NoExc
    /\ cause = "none"
    /\ retriesLeft = 0
    /\ openConns = 0
    /\ locals = InitLocals(script, "parallel")
    /\ outcomes = InitOutcomes(script, "parallel")
    /\ all_outcomes = <<>>
    /\ all_results = <<>>
    /\ printed = <<>>
    /\ caught = NoExc
    /\ summary = <<>>
    /\ exit_status = -1
    /\ response = NoResponse
    /\ client = FreshClient
    /\ dur \in {d \in [Urls -> 1..(DELAYS[Len(DELAYS)] + MaxConnect)] :
                    \A i \in Urls : d[i] - DELAYS[i] \in 0..MaxConnect}
    /\ task = <<>>
    /\ finished = <<>>
    /\ results = <<>>
    /\ StreamIdle
    /\ LinesIdle
    /\ NoResources

\* wrapper: result = func(): the scenario starts with results = []
FanEnter ==
    /\ pc = "call"
    /\ calls' = calls + 1
    /\ task' = [i \in Urls |-> NewTask]
    /\ finished' = <<>>
    /\ results' = <<>>
    /\ pc' = "fan"
    /\ UNCHANGED <<script, cat, step, clock, clockSteps, start_time, result,
                   exc, returned, swallowed, cause, retriesLeft, openConns,
                   locals, outcomes, all_outcomes, all_results, printed,
                   caught, summary, exit_status>>
    /\ UNCHANGED <<httpVars, dur, streamVars>>
    /\ UNCHANGED <<lineVars, resourceVars>>

\* for url in urls: response = get(url); results.append(status): one
\* iteration sends the request and waits for its response
SeqRequest ==
    /\ pc = "fan"
    /\ LoopsOverUrls(CurStep.name)
    /\ Len(results) < Len(DELAYS)
    /\ LET i == Len(results) + 1
       IN  /\ clock' = clock + dur[i]
           /\ task' = [task EXCEPT ![i] = [state |-> "done", left |-> 0,
                                           nth |-> i]]
           /\ results' = Append(results, [url |-> i, status |-> StatusOf(i)])
    /\ UNCHANGED <<script, pc, cat, step, clockSteps, start_time, calls,
                   result, exc, returned, swallowed, cause, retriesLeft,
                   openConns, locals, outcomes, all_outcomes, all_results,
                   printed, caught, summary, exit_status>>
    /\ UNCHANGED <<httpVars, dur, finished, streamVars>>
    /\ UNCHANGED <<lineVars, resourceVars>>

\* executor.submit(requests.get, url) / the task gather makes of
\* fetch_url(url), for the next url of the list
Submit ==
    /\ pc = "fan"
    /\ ~LoopsOverUrls(CurStep.name)
    /\ Tasks("new") # {}
    /\ LET i == CHOOSE j \in Tasks("new") : \A k \in Tasks("new") : j <= k
       IN  task' = [task EXCEPT ![i].state = "queued"]
    /\ UNCHANGED <<script, pc, cat, step, clock, clockSteps, start_time,
                   calls, result, exc, returned, swallowed, cause,
                   retriesLeft, openConns, locals, outcomes, all_outcomes,
                   all_results, printed, caught, summary, exit_status>>
    /\ UNCHANGED <<httpVars, dur, finished, results, streamVars>>
    /\ UNCHANGED <<lineVars, resourceVars>>

\* a free worker thread takes the oldest work item and sends its request /
\* the event loop runs the next task up to its request
StartRequest ==
    /\ pc = "fan"
    /\ Tasks("queued") # {}
    /\ CanStart(script, Cardinality(Tasks("running")))
    /\ LET i == CHOOSE j \in Tasks("queued") :
                    \A k \in Tasks("queued") : j <= k
       IN  task' = [task EXCEPT ![i] = [state |-> "running",
                                        left |-> dur[i], nth |-> 0]]
    /\ UNCHANGED <<script, pc, cat, step, clock, clockSteps, start_time,
                   calls, result, exc, returned, swallowed, cause,
                   retriesLeft, openConns, locals, outcomes, all_outcomes,
                   all_results, printed, caught, summary, exit_status>>
    /\ UNCHANGED <<httpVars, dur, finished, results, streamVars>>
    /\ UNCHANGED <<lineVars, resourceVars>>

\* the response of a request in flight arrives: its future is set
Complete ==
    /\ pc = "fan"
    /\ \E i \in Tasks("running") :
          /\ task[i].left = 0
          /\ task' = [task EXCEPT ![i] = [state |-> "done", left |-> 0,
                                          nth |-> Cardinality(Tasks("done"))
                                                    + 1]]
          /\ finished' = Append(finished, i)
    /\ UNCHANGED <<script, pc, cat, step, clock, clockSteps, start_time,
                   calls, result, exc, returned, swallowed, cause,
                   retriesLeft, openConns, locals, outcomes, all_outcomes,
                   all_results, printed, caught, summary, exit_status>>
    /\ UNCHANGED <<httpVars, dur, results, streamVars>>
    /\ UNCHANGED <<lineVars, resourceVars>>

\* [future.result().status_code for future in as_completed(futures)]: the
\* futures list is complete, the next finished future is taken
Collect ==
    /\ pc = "fan"
    /\ script = "requests"
    /\ ~LoopsOverUrls(CurStep.name)
    /\ Tasks("new") = {}
    /\ finished # <<>>
    /\ exc = NoExc
    /\ task[AsCompleted(finished)].state = "done"
    /\ LET i == AsCompleted(finished)
       IN  /\ results' = Append(results, [url |-> i, status |-> StatusOf(i)])
           /\ finished' = SelectSeq(finished, LAMBDA j : j # i)
    /\ UNCHANGED <<script, pc, cat, step, clock, clockSteps, start_time,
                   calls, result, exc, returned, swallowed, cause,
                   retriesLeft, openConns, locals, outcomes, all_outcomes,
                   all_results, printed, caught, summary, exit_status>>
    /\ UNCHANGED <<httpVars, dur, task, streamVars>>
    /\ UNCHANGED <<lineVars, resourceVars>>

\* results = await asyncio.gather(*tasks): when every task is done, the
\* list of their results in the order of the arguments
Gather ==
    /\ pc = "fan"
    /\ script = "aiohttp"
    /\ ~LoopsOverUrls(CurStep.name)
    /\ Tasks("done") = Urls
    /\ results = <<>>
    /\ results' = [i \in Urls |-> [url |-> i, status |-> StatusOf(i)]]
    /\ finished' = <<>>
    /\ UNCHANGED <<script, pc, cat, step, clock, clockSteps, start_time,
                   calls, result, exc, returned, swallowed, cause,
                   retriesLeft, openConns, locals, outcomes, all_outcomes,
                   all_results, printed, caught, summary, exit_status>>
    /\ UNCHANGED <<httpVars, dur, task, streamVars>>
    /\ UNCHANGED <<lineVars, resourceVars>>

\* a request of parallel_delays in flight cannot connect: requests.get
\* raises in the worker thread and the future holds the exception
Fail ==
    /\ pc = "fan"
    /\ script = "requests"
    /\ ~LoopsOverUrls(CurStep.name)
    /\ \E i \in Tasks("running") :
          /\ task' = [task EXCEPT ![i] = [state |-> "failed", left |-> 0,
                                          nth |-> 0]]
          /\ finished' = Append(finished, i)
    /\ UNCHANGED <<script, pc, cat, step, clock, clockSteps, start_time,
                   calls, result, exc, returned, swallowed, cause,
                   retriesLeft, openConns, locals, outcomes, all_outcomes,
                   all_results, printed, caught, summary, exit_status>>
    /\ UNCHANGED <<httpVars, dur, results, streamVars>>
    /\ UNCHANGED <<lineVars, resourceVars>>

\* future.result() of a future that holds an exception raises it: the
\* list comprehension is left and the with block of the executor is exited
\* with the exception in flight
CollectRaises ==
    /\ pc = "fan"
    /\ script = "requests"
    /\ ~LoopsOverUrls(CurStep.name)
    /\ Tasks("new") = {}
    /\ finished # <<>>
    /\ exc = NoExc
    /\ task[AsCompleted(finished)].state = "failed"
    /\ exc' = ConnExc(script)
    /\ cause' = "connection"
    /\ UNCHANGED <<script, pc, cat, step, clock, clockSteps, start_time,
                   calls, result, returned, swallowed, retriesLeft,
                   openConns, locals, outcomes, all_outcomes, all_results,
                   printed, caught, summary, exit_status>>
    /\ UNCHANGED <<httpVars, fanVars, streamVars>>
    /\ UNCHANGED <<lineVars, resourceVars>>

\* an exit of the executor that does not wait for its workers
ExecutorExits_NoWait(pending) == TRUE

\* ThreadPoolExecutor.__exit__ is shutdown(wait=True): it returns when no
\* submitted work item is queued or running any more
ExecutorExits(pending) == pending = 0

\* the exception leaves parallel_delays through the with block
FanRaise ==
    /\ pc = "fan"
    /\ exc # NoExc
    /\ ExecutorExits(Cardinality(Tasks("queued") \cup Tasks("running")))
    /\ result' = "None"
    /\ pc' = "stop"
    /\ UNCHANGED <<script, cat, step, clock, clockSteps, start_time, calls,
                   exc, returned, swallowed, cause, retriesLeft, openConns,
                   locals, outcomes, all_outcomes, all_results, printed,
                   caught, summary, exit_status>>
    /\ UNCHANGED <<httpVars, fanVars, streamVars>>
    /\ UNCHANGED <<lineVars, resourceVars>>

\* one unit of time passes while the requests in flight wait
Tick ==
    /\ pc = "fan"
    /\ Tasks("running") # {}
    /\ \A i \in Tasks("running") : task[i].left > 0
    /\ ~ENABLED Submit
    /\ ~ENABLED StartRequest
    /\ ~ENABLED Collect
    /\ ~ENABLED CollectRaises
    /\ ~ENABLED FanRaise
    /\ clock' = clock + 1
    /\ task' = [i \in Urls |->
                    IF task[i].state = "running"
                    THEN [task[i] EXCEPT !.left = @ - 1] ELSE task[i]]
    /\ UNCHANGED <<script, pc, cat, step, clockSteps, start_time, calls,
                   result, exc, returned, swallowed, cause, retriesLeft,
                   openConns, locals, outcomes, all_outcomes, all_results,
                   printed, caught, summary, exit_status>>
    /\ UNCHANGED <<httpVars, dur, finished, results, streamVars>>
    /\ UNCHANGED <<lineVars, resourceVars>>

\* return results, after the with block of the executor has seen every
\* worker finish
FanReturn ==
    /\ pc = "fan"
    /\ Len(results) = Len(DELAYS)
    /\ Tasks("done") = Urls
    /\ result' = "response"
    /\ exc' = NoExc
    /\ cause' = "response"
    /\ pc' = "stop"
    /\ UNCHANGED <<script, cat, step, clock, clockSteps, start_time, calls,
                   returned, swallowed, retriesLeft, openConns, locals,
                   outcomes, all_outcomes, all_results, printed, caught,
                   summary, exit_status>>
    /\ UNCHANGED <<httpVars, fanVars, streamVars>>
    /\ UNCHANGED <<lineVars, resourceVars>>

NextFanOut ==
    \/ WrapperStart
    \/ FanEnter
    \/ SeqRequest
    \/ Submit
    \/ StartRequest
    \/ Complete
    \/ Collect
    \/ Gather
    \/ Tick
    \/ FanReturn
    \/ WrapperStop
    \/ TestStep

SpecFanOut == InitFanOut /\ [][NextFanOut]_vars

\* the fan-out scenarios with requests of parallel_delays that may fail
NextFanOutFail ==
    \/ NextFanOut
    \/ Fail
    \/ CollectRaises
    \/ FanRaise

SpecFanOutFail == InitFanOut /\ [][NextFanOutFail]_vars

----------------------------------------------------------------------------
(* stream_bytes_request of the requests, urllib3 and aiohttp scripts,      *)
(* called on its own: the loop over iter_content(chunk_size=256),          *)
(* response.stream(256), content.iter_chunked(256).  The body is a         *)
(* sequence of numbered bytes; one read hands over at least one and at     *)
(* most chunk_size of the bytes that are left.                             *)

StreamScripts == {"requests", "urllib3", "aiohttp"}

\* the body of /bytes/n
BodyOf(n) == [i \in 1..n |-> i]

\* a read that loses the last byte it took from the stream
Read_LosesByte(b, p, k) == SubSeq(b, p + 1, p + k - 1)

\* the chunk a read of k bytes returns when p bytes have been read before
Read(b, p, k) == SubSeq(b, p + 1, p + k)

\* sum(len(chunk) for chunk in chunks)
RECURSIVE SumLen(_)
SumLen(cs) == IF cs = <<>> THEN 0 ELSE Len(Head(cs)) + SumLen(Tail(cs))

InitStream ==
    /\ script \in StreamScripts
    /\ pc = "stream_call"
    /\ cat = 1
    /\ step = 1
    /\ clock = 0
    /\ clockSteps = 0
    /\ start_time = 0
    /\ calls = 0
    /\ result = "None"
    /\ exc = NoExc
    /\ returned = <<>>
    /\ swallowed = NoExc
    /\ cause = "none"
    /\ retriesLeft = 0
    /\ openConns = 0
    /\ locals = EmptyDict
    /\ outcomes = [k \in {} |-> ""]
    /\ all_outcomes = <<>>
    /\ all_results = <<>>
    /\ printed = <<>>
    /\ caught = NoExc
    /\ summary = <<>>
    /\ exit_status = -1
    /\ response = NoResponse
    /\ client = FreshClient
    /\ FanIdle
    /\ \E n \in 0..MaxBody : body = BodyOf(n)
    /\ chunk_size \in 1..MaxChunk
    /\ pos = 0
    /\ chunks = <<>>
    /\ total_bytes = 0
    /\ LinesIdle
    /\ NoResources

\* response = get(.../bytes/n, stream=True); chunks = []
OpenStream ==
    /\ pc = "stream_call"
    /\ response' = [NoResponse EXCEPT !.status = Server("/bytes").status,
                                      !.url = "/bytes", !.sent = 1]
    /\ chunks' = <<>>
    /\ pos' = 0
    /\ pc' = "stream_loop"
    /\ UNCHANGED <<script, cat, step, clock, clockSteps, start_time, calls,
                   result, exc, returned, swallowed, cause, retriesLeft,
                   openConns, locals, outcomes, all_outcomes, all_results,
                   printed, caught, summary, exit_status>>
    /\ UNCHANGED <<client, fanVars, body, chunk_size, total_bytes>>
    /\ UNCHANGED <<lineVars, resourceVars>>

\* one iteration of the loop: chunks.append(chunk)
ReadChunk ==
    /\ pc = "stream_loop"
    /\ pos < Len(body)
    /\ \E k \in 1..chunk_size :
          /\ pos + k <= Len(body)
          /\ chunks' = Append(chunks, Read(body, pos, k))
          /\ pos' = pos + k
    /\ UNCHANGED <<script, pc, cat, step, clock, clockSteps, start_time,
                   calls, result, exc, returned, swallowed, cause,
                   retriesLeft, openConns, locals, outcomes, all_outcomes,
                   all_results, printed, caught, summary, exit_status>>
    /\ UNCHANGED <<httpVars, fanVars, body, chunk_size, total_bytes>>
    /\ UNCHANGED <<lineVars, resourceVars>>

\* the stream is exhausted: the loop ends, total_bytes = sum(...), return
\* response, total_bytes
EndOfStream ==
    /\ pc = "stream_loop"
    /\ pos = Len(body)
    /\ total_bytes' = SumLen(chunks)
    /\ result' = "response"
    /\ pc' = "stream_done"
    /\ UNCHANGED <<script, cat, step, clock, clockSteps, start_time, calls,
                   exc, returned, swallowed, cause, retriesLeft, openConns,
                   locals, outcomes, all_outcomes, all_results, printed,
                   caught, summary, exit_status>>
    /\ UNCHANGED <<httpVars, fanVars, body, chunk_size, pos, chunks>>
    /\ UNCHANGED <<lineVars, resourceVars>>

NextStream ==
    \/ OpenStream
    \/ ReadChunk
    \/ EndOfStream

\* the interpreter keeps running the loop and the server keeps sending
SpecStream == InitStream /\ [][NextStream]_vars /\ WF_vars(NextStream)

----------------------------------------------------------------------------
(* stream_lines_request, called on its own.  The body of /stream/n is n    *)
(* lines, each ended by a line feed, written here as a sequence of         *)
(* characters.  requests (iter_lines), urllib3 (response.stream(256)) and  *)
(* aiohttp (async for line in response.content) take the body from the     *)
(* transport in pieces whose boundaries the transport chooses; the other   *)
(* scripts read it whole.                                                  *)

NL == "\n"

\* one line of len characters with its line feed
Line(len) == [i \in 1..len + 1 |-> IF i <= len THEN "x" ELSE NL]

\* the body of /stream/n with lines of len characters
RECURSIVE LinesBody(_, _)
LinesBody(n, len) ==
    IF n = 0 THEN <<>> ELSE Line(len) \o LinesBody(n - 1, len)

\* str.split('\n')
RECURSIVE Split(_)
Split(str) ==
    IF \A i \in 1..Len(str) : str[i] # NL THEN <<str>>
    ELSE LET i == CHOOSE j \in 1..Len(str) :
                      /\ str[j] = NL
                      /\ \A k \in 1..j - 1 : str[k] # NL
         IN  <<SubSeq(str, 1, i - 1)>> \o Split(SubSeq(str, i + 1, Len(str)))

\* str.strip(): the line feed is the only white space of these bodies
RECURSIVE Strip(_)
Strip(str) ==
    IF str = <<>> THEN str
    ELSE IF Head(str) = NL THEN Strip(Tail(str))
    ELSE IF str[Len(str)] = NL THEN Strip(SubSeq(str, 1, Len(str) - 1))
    ELSE str

\* bytes.splitlines(): as split, without the empty piece after a final
\* line feed
SplitLines(str) ==
    LET ps == Split(str)
    IN  IF ps[Len(ps)] = <<>> THEN SubSeq(ps, 1, Len(ps) - 1) ELSE ps

\* [l for l in lines if l]
NonEmpty(ls) == SelectSeq(ls, LAMBDA l : l # <<>>)

\* Response.iter_lines of requests over the chunks cs: a last piece that
\* the chunk does not end is kept as pending and put in front of the next
\* chunk
RECURSIVE IterLines(_, _, _)
IterLines(cs, pending, out) ==
    IF cs = <<>> THEN [lines |-> out, pending |-> pending]
    ELSE LET chunk == pending \o Head(cs)
             ls    == SplitLines(chunk)
             last  == ls[Len(ls)]
             keep  == /\ ls # <<>>
                      /\ last # <<>>
                      /\ last[Len(last)] = chunk[Len(chunk)]
         IN  IF keep
             THEN IterLines(Tail(cs), last,
                            out \o SubSeq(ls, 1, Len(ls) - 1))
             ELSE IterLines(Tail(cs), <<>>, out \o ls)

\* StreamReader.readline of aiohttp over the chunks cs: every line comes
\* with its line feed, what follows the last line feed waits in the buffer
RECURSIVE ReadLines(_, _, _)
ReadLines(cs, buffer, out) ==
    IF cs = <<>> THEN [lines |-> out, pending |-> buffer]
    ELSE LET ps == Split(buffer \o Head(cs))
         IN  ReadLines(Tail(cs), ps[Len(ps)],
                       out \o [i \in 1..Len(ps) - 1 |-> ps[i] \o <<NL>>])

\* the lines the iterator of the library has handed to the loop after the
\* chunks cs, and the piece it holds back
Yielded(s, cs) ==
    IF s = "requests" THEN IterLines(cs, <<>>, <<>>)
    ELSE ReadLines(cs, <<>>, <<>>)

\* the lines list after the loop has seen the chunks cs, the last of which
\* is chunk: urllib3 strips and splits every chunk by itself
LinesAfter(s, old, cs, chunk) ==
    CASE s = "urllib3" -> old \o Split(Strip(chunk))
      [] s \in {"requests", "aiohttp"} -> NonEmpty(Yielded(s, cs).lines)
      [] OTHER -> old

\* the lines list when the body has ended: the iterator hands over what it
\* held back; the scripts that read the body whole strip and split it
LinesAtEnd(s, old, cs) ==
    CASE s = "urllib3" -> old
      [] s \in {"requests", "aiohttp"} ->
            LET y == Yielded(s, cs)
            IN  NonEmpty(y.lines \o (IF y.pending = <<>> THEN <<>>
                                     ELSE <<y.pending>>))
      [] OTHER -> IF cs = <<>> THEN Split(<<>>) ELSE Split(Strip(cs[1]))

\* the count the function returns
CountLines(s, ls) == IF s = "urllib3" THEN Len(NonEmpty(ls)) ELSE Len(ls)

InitLines ==
    /\ script \in Scripts
    /\ pc = "lines_call"
    /\ cat = 1
    /\ step = 1
    /\ clock = 0
    /\ clockSteps = 0
    /\ start_time = 0
    /\ calls = 0
    /\ result = "None"
    /\ exc = NoExc
    /\ returned = <<>>
    /\ swallowed = NoExc
    /\ cause = "none"
    /\ retriesLeft = 0
    /\ openConns = 0
    /\ locals = EmptyDict
    /\ outcomes = [k \in {} |-> ""]
    /\ all_outcomes = <<>>
    /\ all_results = <<>>
    /\ printed = <<>>
    /\ caught = NoExc
    /\ summary = <<>>
    /\ exit_status = -1
    /\ response = NoResponse
    /\ client = FreshClient
    /\ FanIdle
    /\ \E n \in 1..MaxLines, len \in 1..MaxLineLen : body = LinesBody(n, len)
    /\ chunk_size \in 1..MaxChunk
    /\ pos = 0
    /\ chunks = <<>>
    /\ total_bytes = 0
    /\ LinesIdle
    /\ NoResources

\* response = get(.../stream/n, ...); lines = []
LinesOpen ==
    /\ pc = "lines_call"
    /\ response' = [NoResponse EXCEPT !.status = Server("/stream").status,
                                      !.url = "/stream", !.sent = 1]
    /\ stream_lines' = <<>>
    /\ chunks' = <<>>
    /\ pos' = 0
    /\ pc' = "lines_loop"
    /\ UNCHANGED <<script, cat, step, clock, clockSteps, start_time, calls,
                   result, exc, returned, swallowed, cause, retriesLeft,
                   openConns, locals, outcomes, all_outcomes, all_results,
                   printed, caught, summary, exit_status>>
    /\ UNCHANGED <<client, fanVars, body, chunk_size, total_bytes, num_lines,
                   resourceVars>>

\* the transport hands over the next piece of the body: up to chunk_size
\* characters to the three streaming scripts, all of it to response.read()
LinesRead ==
    /\ pc = "lines_loop"
    /\ pos < Len(body)
    /\ \E k \in 1..Len(body) - pos :
          /\ IF script \in StreamScripts THEN k <= chunk_size
             ELSE k = Len(body) - pos
          /\ chunks' = Append(chunks, Read(body, pos, k))
          /\ pos' = pos + k
          /\ stream_lines' = LinesAfter(script, stream_lines, chunks',
                                        Read(body, pos, k))
    /\ UNCHANGED <<script, pc, cat, step, clock, clockSteps, start_time,
                   calls, result, exc, returned, swallowed, cause,
                   retriesLeft, openConns, locals, outcomes, all_outcomes,
                   all_results, printed, caught, summary, exit_status>>
    /\ UNCHANGED <<httpVars, fanVars, body, chunk_size, total_bytes,
                   num_lines, resourceVars>>

\* the body has ended: return response, len(...)
LinesEnd ==
    /\ pc = "lines_loop"
    /\ pos = Len(body)
    /\ stream_lines' = LinesAtEnd(script, stream_lines, chunks)
    /\ num_lines' = CountLines(script, stream_lines')
    /\ result' = "response"
    /\ pc' = "lines_done"
    /\ UNCHANGED <<script, cat, step, clock, clockSteps, start_time, calls,
                   exc, returned, swallowed, cause, retriesLeft, openConns,
                   locals, outcomes, all_outcomes, all_results, printed,
                   caught, summary, exit_status>>
    /\ UNCHANGED <<httpVars, fanVars, streamVars, resourceVars>>

NextLines ==
    \/ LinesOpen
    \/ LinesRead
    \/ LinesEnd

SpecLines == InitLines /\ [][NextLines]_vars

----------------------------------------------------------------------------
(* Properties *)

NumCategories == Len(Categories(script))

\* the names recorded in all_results
Recorded == {all_results[i].name : i \in 1..Len(all_results)}

\* the run is inside the timed call of delay_5_timeout_request
InDelay5 ==
    /\ pc \in {"call", "attempt", "d5_except", "stop", "ret"}
    /\ CurStep.name = "delay_5_timeout_request"

\* C1: when a category fails by raising, every later category of the fixed
\* order is still executed and its timings are recorded in all_results.
C1_LaterCategoriesRecorded ==
    (pc = "done" /\ caught # NoExc) =>
        \A i \in (cat + 1)..NumCategories :
            Categories(script)[i] \in Recorded

\* C2: no exception a scenario raises leaves run_all_tests: the run never
\* crashes, an exception that reaches run_all_tests is one its except clause
\* catches, and a finished run has printed the summary of all_results and
\* ended with exit status 0.
C2_RunNeverPropagates ==
    /\ pc # "crashed"
    /\ exit_status \in {-1, 0}
    /\ (pc = "except" => RunAllCatches(exc))
    /\ (pc = "done" => /\ exit_status = 0
                       /\ exc = NoExc
                       /\ summary = SummaryLines(all_results))

\* C2 witness: a run in which a scenario raised has finished normally
C2_Witness ==
    /\ pc = "done"
    /\ caught # NoExc
    /\ exit_status = 0
    /\ Len(summary) > 0

\* C3: the wrapper produces an elapsed duration to its caller on both
\* paths, when the operation returns and when it raises.
C3_ElapsedOnBothPaths ==
    [][(pc = "stop" /\ pc' # "stop") =>
            /\ Len(returned') = 2
            /\ returned'[2] = clock - start_time]_vars

\* C4: the wrapper is transparent: it has invoked func exactly once; when
\* func returned r it returns the pair (r, elapsed) with r unchanged, when
\* func raised E it raises the same E; and neither the start nor the stop
\* of the wrapper changes anything else of the program's state.
C4_WrapperTransparent ==
    [][/\ (pc = "stop" /\ pc' # "stop") =>
            /\ calls = 1
            /\ exc = NoExc =>
                    /\ pc' = "ret"
                    /\ Len(returned') = 2
                    /\ returned'[1] = result
            /\ exc # NoExc =>
                    /\ pc' = "propagate"
                    /\ exc' = exc
            /\ UNCHANGED <<result, exc, cat, step, locals, all_results,
                           printed, openConns, swallowed, caught, summary>>
       /\ (pc = "test" /\ pc' = "call") =>
            UNCHANGED <<result, exc, cat, step, locals, all_results,
                        printed, openConns, swallowed, caught, summary>>
      ]_vars

\* C4 witness: the wrapper has returned the response of a scenario that was
\* called once
C4_Witness ==
    /\ pc = "ret"
    /\ calls = 1
    /\ returned[1] = "response"
    /\ result = "response"

\* C5: every elapsed duration the wrapper returns is >= 0, however the wall
\* clock behaves between its two reads.
C5_ElapsedNonNegative ==
    Len(returned) = 2 => returned[2] >= 0

\* C6: whenever the deadline of the /delay/5 request expires in the
\* transport, delay_5_timeout_request returns the timeout outcome and no
\* exception leaves it, whatever class the transport raises.
C6_TimeoutNeverEscapes ==
    (InDelay5 /\ pc = "stop" /\ cause = "timeout") =>
        /\ exc = NoExc
        /\ result = Delay5None(script)

\* C7: the tighter-timeout scenario is reported as a timeout only when the
\* deadline expired; a connection, DNS or TLS failure is never reported as
\* a timeout.
C7_TimeoutOnlyWhenExpired ==
    [][(pc = "ret" /\ Len(printed') = Len(printed) + 1
                  /\ printed'[Len(printed')].kind = "timeout") =>
            cause = "timeout"]_vars

\* C8: in the http.client script every connection a scenario opened with
\* create_connection is closed when the scenario returns, on the timeout
\* path as on the success path.
C8_ConnectionsClosedOnReturn ==
    (script = "http_client" /\ pc = "ret") => openConns = 0

\* C9: the request to /delay/5 with the 3 second timeout always yields the
\* timeout outcome, never a response or an exception, and its elapsed time
\* is >= the timeout and < the server delay, for every connect time and
\* every retry behaviour of the transport.
C9_TimeoutElapsedWindow ==
    /\ (InDelay5 /\ pc = "stop" /\ cause = "timeout") =>
            /\ exc = NoExc
            /\ result # "response"
    /\ (InDelay5 /\ pc = "ret" /\ cause = "timeout") =>
            /\ returned[1] # "response"
            /\ returned[2] >= TIMEOUT
            /\ returned[2] < DELAY_5

\* the summary line of item i of all_results when only the times of
\* scenarios that ended with a response count
ResponseOnlyLine(i) ==
    LET ks == {k \in DOMAIN all_results[i].results :
                    all_outcomes[i][k] = "response"}
    IN  [name |-> all_results[i].name,
         total |-> SumOf(all_results[i].results, ks),
         count |-> Cardinality(ks)]

\* C10: the average printed for a category is computed only over the
\* elapsed times of scenarios that completed with a response; the time of
\* a scenario that ended in a failure is excluded.
C10_AverageOnlyOverResponses ==
    pc = "done" =>
        \A i \in 1..Len(all_results) :
            \A j \in 1..Len(summary) :
                summary[j].name = all_results[i].name =>
                    summary[j] = ResponseOnlyLine(i)

\* the lines a category printed for timed scenarios that returned; each
\* carries the elapsed time of its scenario
TimedLines(c) ==
    SelectSeq(printed, LAMBDA l : l.cat = c /\ l.kind # "exception")

RECURSIVE SumTimes(_)
SumTimes(ls) ==
    IF ls = <<>> THEN 0 ELSE Head(ls).time + SumTimes(Tail(ls))

\* C11: for every category that completed, the average of its summary line
\* (total / count) equals the sum of the elapsed times of all the timed
\* scenarios executed in the category divided by their number, the three
\* requests of the errors category included.
C11_AverageOverAllScenarios ==
    pc = "done" =>
        \A i \in 1..Len(all_results) :
            \A j \in 1..Len(summary) :
                summary[j].name = all_results[i].name =>
                    LET ls == TimedLines(all_results[i].name)
                    IN  summary[j].total * Len(ls)
                            = SumTimes(ls) * summary[j].count

ErrorScenarios ==
    {"error_404_request", "error_500_request", "error_429_request"}

\* the status the url of an error scenario names
ErrorStatus(n) ==
    CASE n = "error_404_request" -> 404
      [] n = "error_500_request" -> 500
      [] n = "error_429_request" -> 429

\* C12: in every script a received 404, 500 or 429 status is not an error:
\* the error scenario whose request was answered raises nothing and returns
\* a result that carries that status, which the wrapper pairs with the
\* elapsed time; this includes the urllib.request script, whose transport
\* signals such a status by raising HTTPError.
C12_ErrorStatusReturned ==
    /\ (/\ pc = "stop"
        /\ CurStep.name \in ErrorScenarios
        /\ cause = "response") =>
            /\ exc = NoExc
            /\ result = "response"
            /\ response.status = ErrorStatus(CurStep.name)
    /\ (pc = "ret" /\ CurStep.name \in ErrorScenarios) =>
            /\ Len(returned) = 2
            /\ returned[1] = "response"
            /\ returned[2] = clock - start_time
            /\ response.status = ErrorStatus(CurStep.name)

\* C12 witness: the urllib.request script has got the 404 result back from
\* the wrapper
C12_Witness ==
    /\ script = "urllib_request"
    /\ pc = "ret"
    /\ CurStep.name = "error_404_request"
    /\ returned[1] = "response"
    /\ response.status = 404

\* C13: in every script no_redirect_request against /redirect/1 returns
\* the raw 3xx response of the url it asked for, never the response of the
\* redirect target, and no second request goes to the Location target.
C13_NoFollowReturnsRaw3xx ==
    (pc = "ret" /\ CurStep.name = "no_redirect_request") =>
        /\ response.status \in 300..399
        /\ response.url = Path("no_redirect_request")
        /\ response.sent = 1

\* C14: in every script redirect_3_request and redirect_to_request follow
\* every redirect hop and return a 2xx result whose final url differs from
\* the requested url; none returns the first 3xx response.
C14_FollowReachesFinal2xx ==
    (/\ pc = "ret"
     /\ CurStep.name \in {"redirect_3_request", "redirect_to_request"}) =>
        /\ response.status \in 200..299
        /\ response.url # Path(CurStep.name)

\* C15: cookie round trip: in every script the retrieval step of
\* test_cookies sends the cookie session=abc123 with its request for
\* /cookies, so the cookies the response reports contain it.
C15_CookieRoundTrip ==
    (/\ pc = "ret"
     /\ CurCat = "cookies"
     /\ CurStep.name = "get_cookies_request") =>
        COOKIE_ABC \in response.cookies

\* the client object a scenario sends its requests through
ClientUsed(s, n, cl) == IF UsesClient(s, n) THEN cl ELSE FreshClient

\* C16: no scenario leaves a mutation of client or session state visible
\* to a later scenario: whenever a scenario is about to be called, the
\* credentials, persistent headers and cookies of the client it will use
\* are those of a freshly constructed client.
C16_NextClientIsFresh ==
    (pc = "test" /\ step <= Len(CurSteps) /\ CurStep.var # "") =>
        ClientUsed(script, CurStep.name, client) = FreshClient

\* the scenarios that fan out over the three delayed urls
FanOutScenarios == {"parallel_delays", "parallel_requests"}

\* a request has been sent
Issued(i) == task[i].state \in {"running", "done"}

\* C17: in every script that runs the fan-out scenario over /delay/1,
\* /delay/2 and /delay/3, all three requests of the batch are issued before
\* any of them has completed: no request waits for an earlier one.
C17_AllIssuedBeforeAnyCompletes ==
    (pc = "fan" /\ CurStep.name \in FanOutScenarios) =>
        ((\E i \in Urls : task[i].state = "done") =>
            \A j \in Urls : Issued(j))

RECURSIVE SumDur(_)
SumDur(n) == IF n = 0 THEN 0 ELSE dur[n] + SumDur(n - 1)

MaxDur == CHOOSE m \in {dur[i] : i \in Urls} : \A i \in Urls : dur[i] <= m

\* test_async_parallel has run both of its scenarios
BothDelaysTimed ==
    /\ pc = "test"
    /\ step > Len(CurSteps)
    /\ script \in {"requests", "aiohttp"}

\* C18: for the endpoints delayed by 1, 2 and 3 the elapsed time of
\* parallel_delays is bounded by the slowest request and is strictly less
\* than the elapsed time of sequential_delays, which is the sum of the
\* three, under every interleaving of the workers or tasks.
C18_ConcurrentFasterThanSequential ==
    BothDelaysTimed =>
        /\ locals["parallel_time"] <= MaxDur
        /\ locals["sequential_time"] = SumDur(Len(DELAYS))
        /\ locals["parallel_time"] < locals["sequential_time"]

\* C18 witness: the requests script has timed both scenarios and the
\* concurrent one took as long as its slowest request
C18_Witness ==
    /\ BothDelaysTimed
    /\ script = "requests"
    /\ locals["parallel_time"] = MaxDur
    /\ locals["sequential_time"] > MaxDur

\* parallel_delays is about to return its results list
ParallelDelaysDone ==
    /\ pc = "stop"
    /\ CurStep.name = "parallel_delays"
    /\ exc = NoExc

\* C19: when all three fan-out requests succeed, the results list of
\* parallel_delays holds exactly three statuses, one for each submitted
\* url, none lost or duplicated, in the order of completion (requests,
\* as_completed) or of submission (aiohttp, gather), under every
\* interleaving.
C19_ResultsCompleteAndOrdered ==
    ParallelDelaysDone =>
        /\ Len(results) = Len(DELAYS)
        /\ \A i \in Urls :
              Cardinality({k \in 1..Len(results) : results[k].url = i}) = 1
        /\ \A k \in 1..Len(results) : results[k].status = 200
        /\ script = "requests" =>
              \A a, b \in 1..Len(results) :
                  a < b => task[results[a].url].nth < task[results[b].url].nth
        /\ script = "aiohttp" =>
              \A k \in 1..Len(results) : results[k].url = k

\* C19 witness: the requests script returns three results whose order of
\* completion is not the order of submission
C19_Witness ==
    /\ ParallelDelaysDone
    /\ script = "requests"
    /\ Len(results) = Len(DELAYS)
    /\ results[1].url # 1

RECURSIVE Flatten(_)
Flatten(cs) == IF cs = <<>> THEN <<>> ELSE Head(cs) \o Flatten(Tail(cs))

\* every byte of the body is in the chunks exactly once and in order, no
\* chunk is longer than the chunk size, and the count returned is the
\* length of the body
StreamedExactly ==
    /\ \A k \in 1..Len(chunks) : Len(chunks[k]) <= chunk_size
    /\ pc = "stream_done" =>
            /\ Flatten(chunks) = body
            /\ total_bytes = Len(body)

\* C20: for every body length n and chunk size c, stream_bytes_request
\* returns a total byte count equal to n: the chunk-reading loop consumes
\* every byte exactly once, every chunk has at most c bytes, and the loop
\* terminates.
C20_StreamBytesTotal ==
    /\ []StreamedExactly
    /\ <>(pc = "stream_done")

\* C20 witness: a body that is not a multiple of the chunk size has been
\* read in several chunks and counted
C20_Witness ==
    /\ pc = "stream_done"
    /\ Len(chunks) >= 2
    /\ Len(body) % chunk_size # 0
    /\ total_bytes = Len(body)

\* the number of lines of a body: every line ends with a line feed
NumLinesOf(b) == Cardinality({i \in 1..Len(b) : b[i] = NL})

\* C21: stream_lines_request returns the number of lines of the body,
\* wherever the transport splits the body into chunks: a line that spans a
\* chunk boundary is counted once.
C21_LinesCountedOnce ==
    pc = "lines_done" => num_lines = NumLinesOf(body)

\* the scenarios named after a feature some libraries lack, with the
\* category and the key their outcome is returned under
FeatureScenarios ==
    { [cat |-> "auth", name |-> "digest_auth_request", key |-> "digest_time"],
      [cat |-> "compression", name |-> "brotli_request",
       key |-> "brotli_time"] }

\* the scenario function of the script asks for another url than the one of
\* the feature
IsFallback(s, n) == RequestUrl(s, n) # FeatureUrl(n)

\* C22: in a script whose library lacks digest authentication or brotli
\* decoding, the outcome of digest_auth_request / brotli_request is never
\* returned and recorded as an ordinary successful response.
C22_FallbackNotOrdinaryResponse ==
    \A i \in 1..Len(all_results) : \A f \in FeatureScenarios :
        (all_results[i].name = f.cat /\ IsFallback(script, f.name))
            => all_outcomes[i][f.key] # "response"

\* C23: file_upload_request sends the file and the description field as a
\* multipart/form-data body.
C23_UploadIsMultipart ==
    (/\ pc = "stop"
     /\ CurStep.name = "file_upload_request"
     /\ cause = "response") => content_type = MULTIPART

\* C24: every session handle created during the run has been closed when
\* run_all_tests returns, whether its requests succeeded or failed.
C24_SessionsClosedAtReturn ==
    pc = "done" => sessions = 0

\* C25: in the httplib2 script test_timeouts does not raise when
\* delay_5_timeout_request has hit the timeout: it reports the timeout and
\* returns its dict, so the later categories are run.
C25_Httplib2TimeoutBranch ==
    (/\ script = "httplib2"
     /\ CurCat = "timeouts"
     /\ cause = "timeout"
     /\ swallowed # NoExc) => exc # "AttributeError"

\* C26: test_error_handling returns its dict whenever each of its three
\* requests returns a response or raises the request exception of the
\* library, also when all three raise.
C26_ErrorHandlingTimeReturned ==
    CurCat = "errors" => exc # "UnboundLocalError"

\* the workers of parallel_delays that have not finished
Unfinished == Tasks("new") \cup Tasks("queued") \cup Tasks("running")

\* parallel_delays of the requests script has returned or raised
ParallelDelaysLeft ==
    /\ script = "requests"
    /\ step <= Len(CurSteps)
    /\ CurStep.name = "parallel_delays"
    /\ pc \in {"stop", "ret", "propagate"}

\* C27: parallel_delays of the requests script neither returns nor raises
\* before all three worker requests have finished, also when the result of
\* one future raises, and the elapsed time of the wrapper covers every
\* request that was answered.
C27_ExecutorWaitsForWorkers ==
    ParallelDelaysLeft =>
        /\ Unfinished = {}
        /\ \A i \in Tasks("done") : clock - start_time >= dur[i]

\* a request has failed at once and its exception was raised to the caller
\* before any result was collected, and the function still left only after
\* the other two requests were answered
C27_Witness ==
    /\ ParallelDelaysLeft
    /\ pc = "propagate"
    /\ results = <<>>
    /\ Cardinality(Tasks("failed")) = 1
    /\ Cardinality(Tasks("done")) = 2
    /\ clock - start_time >= DELAYS[2]

\* C28: a temporary file file_upload_request has created is deleted exactly
\* once by the time the function returns or raises, whether the upload
\* succeeded or failed: no temporary upload file is left behind.
C28_TempFileDeletedOnce ==
    temp_files.unlinked = temp_files.created

\* file_upload_request has created its file, the upload could not connect,
\* and the file has been deleted
C28_Witness ==
    /\ pc = "stop"
    /\ CurStep.name = "file_upload_request"
    /\ exc # NoExc
    /\ temp_files.created = 1
    /\ temp_files.unlinked = 1

\* C29: the keys of all_results are always a prefix of the category order
\* of the script, a category is recorded only when it and all earlier ones
\* have completed, and the summary covers exactly the recorded categories,
\* each once, in that order.
C29_ResultsArePrefix ==
    /\ Len(all_results) <= NumCategories
    /\ Len(all_results) <= cat
    /\ \A i \in 1..Len(all_results) :
          all_results[i].name = Categories(script)[i]
    /\ pc # "done" => summary = <<>>
    /\ pc = "done" =>
          /\ Len(summary) = Len(all_results)
          /\ \A i \in 1..Len(summary) : summary[i].name = all_results[i].name

\* a run that stopped at an exception after some categories, with the
\* summary printed for the recorded ones
C29_Witness ==
    /\ pc = "done"
    /\ caught # NoExc
    /\ Len(all_results) \in 2..NumCategories - 1
    /\ Len(summary) = Len(all_results)

\* the timed scenario of category c whose request the request u of the
\* test_* function sends again
Repeats(c, u) ==
    CASE u = "session.get /cookies/set" ->
            IF c = "sessions" THEN "session_operations"
            ELSE "set_cookies_request"
      [] u = "session.get /cookies" ->
            IF c = "sessions" THEN "session_operations"
            ELSE "get_cookies_request"
      [] u = "session.get /gzip"      -> "gzip_request"
      [] u = "session.get /brotli"    -> "brotli_request"
      [] u = "session.post /post"     -> "file_upload_request"
      [] u = "session.get /json"      -> "json_response_request"
      [] u = "session.get /xml"       -> "xml_response_request"
      [] u = "session.get /html"      -> "html_response_request"
      [] u = "session.get /image/png" -> "image_response_request"
      [] OTHER                        -> ""

\* the test_* function is about to send, outside any timed call, the
\* request of a scenario it has already called
Resends ==
    /\ step <= Len(CurSteps)
    /\ CurStep.var = ""
    /\ \E k \in 1..step - 1 :
          CurSteps[k].name = Repeats(CurCat, CurStep.name)

\* C30: a run issues each catalogue request once: no test_* function sends
\* the request of a scenario again outside the timed scenario call.
C30_EachRequestOnce ==
    [][~(UntimedRequest /\ Resends)]_vars

====
